---- MODULE Spec2Model ----
(***************************************************************************)
(* Verification development for src/account.rs of sms4-backend: the verify *)
(* sessions of a verified Account (req_verify / do_verify /                *)
(* reset_password) and the activation captcha of an Unverified account.    *)
(*                                                                         *)
(* The submodule account/verify.rs (VerifyCx, Captcha, VerifyVariant) is   *)
(* not part of the sources at hand; VerifyCx_new, update and the outcome   *)
(* of send_email are modelled from the specification text and from the doc *)
(* comments of account.rs.                                                 *)
(*                                                                         *)
(* Time is counted in minutes.  A captcha is a random code: generating one *)
(* is a nondeterministic choice over Captcha.                              *)
(***************************************************************************)
EXTENDS Integers, FiniteSets, Sequences, TLC

VARIABLES now, verifies, password, unv, pc, last, perm, codec

vars == <<now, verifies, password, unv, pc, last, perm, codec>>

\* ---------------------------------------------------------------- bounds
MaxTime == 11
MaxCaptcha == 1
MaxKey == 1
MaxVersion == 2

\* ------------------------------------------------------------- constants
\* "no more than 10 minutes" (doc comments of req_reset_password,
\* req_verify and send_captcha)
Cooldown == 10
\* const VERSION: u32 = 1 (impl dmds::Data for Account, for Unverified)
VERSION == 1

\* ------------------------------------------------------------------ data
VerifyVariant == {"ResetPassword", "Activation"}
Captcha == 0 .. MaxCaptcha
\* the credential set_password stores, by the password it stands for
Password == {"initial", "new"}
Time == 0 .. MaxTime

NoVariant == "-"
NoCaptcha == 0 - 1
NoTime == 0 - 1
\* Option::None of a VerifyCx (an absent map entry, no account)
None == [captcha |-> NoCaptcha, last_req |-> NoTime]
ActivationLabel == "account activation"

\* VerifyCx { captcha, last request time }
VerifyCx == [captcha : Captcha, last_req : Time]

\* Ext { verifies: HashMap<VerifyVariant, VerifyCx> }: a map holds at most
\* one value per key; an absent key is None.
Ext == [VerifyVariant -> VerifyCx \cup {None}]

\* Ext::default(): the empty map
ExtDefault == [v \in VerifyVariant |-> None]

\* Emails an Unverified account may be created with: (local part, domain)
Email == { <<"a", "pkuschool.edu.cn">>, <<"b", "i.pkuschool.edu.cn">>,
           <<"c", "example.com">> }

AllowedDomain(e) == e[2] \in {"pkuschool.edu.cn", "i.pkuschool.edu.cn"}

\* The record of the last call that returned (or was abandoned): the
\* operation, its variant, its captcha argument, its result and the captcha
\* it handed to the email transport.
Call(op, variant, arg, res, sent) ==
    [op |-> op, variant |-> variant, arg |-> arg, res |-> res, sent |-> sent,
     elapsed |-> NoTime]

\* A call that returned the throttle error, with the time since the last
\* request that it saw.
ThrottledCall(op, variant, elapsed) ==
    [op |-> op, variant |-> variant, arg |-> NoCaptcha, res |-> "Throttled",
     sent |-> NoCaptcha, elapsed |-> elapsed]

NoCall == Call("none", NoVariant, NoCaptcha, "none", NoCaptcha)

\* Where the account's current call stands: none in progress, or one
\* suspended at send_email(...).await, reached through `via`: "update"
\* (the entry existed and was refreshed), "insert" (a new entry) or "none"
\* (send_captcha, which does neither).
Idle == [at |-> "idle", variant |-> NoVariant, via |-> "none"]
Sending(variant, via) == [at |-> "send_email", variant |-> variant, via |-> via]

\* The record of a call that is suspended at its send.
PendingCall(op, variant) == Call(op, variant, NoCaptcha, "pending", NoCaptcha)

\* ------------------------------------------------------------- VerifyCx
\* VerifyCx::new(): a fresh captcha c, requested at time t
VerifyCx_new(c, t) == [captcha |-> c, last_req |-> t]

\* VerifyCx::update(): fails when the time since the last request is no
\* more than the cooldown, else regenerates the captcha and the timestamp
update(cx, c, t) ==
    IF t - cx.last_req <= Cooldown
    THEN [ok |-> FALSE, cx |-> cx]
    ELSE [ok |-> TRUE, cx |-> [captcha |-> c, last_req |-> t]]

\* VerifyCx::captcha()
captcha(cx) == cx.captcha

\* outcomes of VerifyCx::send_email(...).await
SendOutcome == {"Ok", "TransportError"}

\* ----------------------------------------------------------- Permission
\* enum Permission
Permission ==
    {"Post", "GetPubPost", "ReviewPost", "RemovePost", "SetPermissions",
     "ViewFullAccount", "ViewSimpleAccount", "ManageNotifications",
     "GetPubNotifications", "UploadResource", "Maintain"}

NoPermission == "-"

\* contains with the pair (RemovePost, GetPubPost) left out of the table
contains_no_two_hop(self, permission) ==
    \/ self = "Post" /\ permission = "GetPubPost"
    \/ self = "SetPermissions"
          /\ permission \in {"ViewFullAccount", "ViewSimpleAccount"}
    \/ self = "ViewFullAccount" /\ permission = "ViewSimpleAccount"
    \/ self = "ReviewPost" /\ permission = "GetPubPost"
    \/ self = "RemovePost" /\ permission = "ReviewPost"
    \/ self = "ManageNotifications" /\ permission = "GetPubNotifications"

\* contains with the arguments of one arm the other way round
contains_swapped_arm(self, permission) ==
    \/ self = "Post" /\ permission = "GetPubPost"
    \/ self = "SetPermissions"
          /\ permission \in {"ViewFullAccount", "ViewSimpleAccount"}
    \/ self = "ViewSimpleAccount" /\ permission = "ViewFullAccount"
    \/ self = "ReviewPost" /\ permission = "GetPubPost"
    \/ self = "RemovePost" /\ permission \in {"GetPubPost", "ReviewPost"}
    \/ self = "ManageNotifications" /\ permission = "GetPubNotifications"

\* Permission::contains: matches!((self, permission), ...), one disjunct
\* per arm of the pattern
contains(self, permission) ==
    \/ self = "Post" /\ permission = "GetPubPost"
    \/ self = "SetPermissions"
          /\ permission \in {"ViewFullAccount", "ViewSimpleAccount"}
    \/ self = "ViewFullAccount" /\ permission = "ViewSimpleAccount"
    \/ self = "ReviewPost" /\ permission = "GetPubPost"
    \/ self = "RemovePost" /\ permission \in {"GetPubPost", "ReviewPost"}
    \/ self = "ManageNotifications" /\ permission = "GetPubNotifications"

\* the permissions `self` contains, one hop
Direct(self) == {q \in Permission : contains(self, q)}

\* the permissions reached from the set S by at most n more hops
RECURSIVE Hops(_, _)
Hops(S, n) ==
    IF n = 0 THEN S
    ELSE Hops(S \cup UNION {Direct(q) : q \in S}, n - 1)

\* everything `self` implies through a chain of one or more contains pairs
Implies(self) == Hops(Direct(self), Cardinality(Permission))

\* default_set that also grants ViewFullAccount
default_set_with_full ==
    {"Post", "GetPubPost", "ViewSimpleAccount", "ViewFullAccount",
     "UploadResource", "GetPubNotifications"}

\* Permission::default_set
default_set ==
    {"Post", "GetPubPost", "ViewSimpleAccount", "UploadResource",
     "GetPubNotifications"}

\* ------------------------------------------------------------------ Tag
\* libaccount's House and Academy are enumerations of another crate:
\* two values of each stand for them; two department names.
House == {"house1", "house2"}
Academy == {"academy1", "academy2"}
Department == {"", "dept"}

\* enum Tag: a variant and its content
Tag ==
    ({"Tag::Permission"} \X Permission) \cup ({"Tag::Department"} \X Department)
       \cup ({"Tag::House"} \X House) \cup ({"Tag::Academy"} \X Academy)

\* enum TagEntry
TagEntry == {"Permission", "Department", "House", "Academy"}

\* Tag::as_entry
as_entry(t) ==
    CASE t[1] = "Tag::Permission" -> "Permission"
      [] t[1] = "Tag::Department" -> "Department"
      [] t[1] = "Tag::House" -> "House"
      [] t[1] = "Tag::Academy" -> "Academy"

\* Tag::as_permission: Some(p) for Tag::Permission(p), else None
as_permission(t) ==
    IF t[1] = "Tag::Permission"
    THEN [some |-> TRUE, p |-> t[2]]
    ELSE [some |-> FALSE, p |-> NoPermission]

\* is_user_defineable with the negation lost
is_user_defineable_no_not(entry) == entry = "Permission"

\* TagEntry::is_user_defineable: !matches!(self, TagEntry::Permission)
is_user_defineable(entry) == ~(entry = "Permission")

\* The record of a query of the permission model or the tag system: the
\* arguments (permissions a, b, c, or a tag t), what was asked of them
\* (op; "input" before anything was asked) and the answer.
Query(op, a, b, c, t, res) ==
    [op |-> op, a |-> a, b |-> b, c |-> c, t |-> t, res |-> res]

NoTag == <<"-", "-">>

NoQuery == Query("none", NoPermission, NoPermission, NoPermission, NoTag, FALSE)

\* ---------------------------------------------------------------- codec
\* dimension keys (account id, email hash) and schema versions
Key == 0 .. MaxKey
Version == 0 .. MaxVersion

\* the entities that are stored: sessions requested at the first or the
\* last minute, two sample tags
StoredCx == {cx \in VerifyCx : cx.last_req \in {0, MaxTime}}
StoredExt == [VerifyVariant -> StoredCx \cup {None}]
StoredTag == {<<"Tag::Permission", "Post">>, <<"Tag::Department", "dept">>}
StoredEmail == {e \in Email : AllowedDomain(e)}

\* Account { inner: libaccount::Account<Tag, Ext> }
AccountEntity ==
    [id : Key, email : StoredEmail, password : Password,
     tags : SUBSET StoredTag, ext : StoredExt]

\* Unverified { inner: libaccount::Unverified<VerifyCx> }
UnverifiedEntity == [email_hash : Key, email : StoredEmail, ext : StoredCx]

\* the orders in which the elements of a set can be written out
Orders(S) ==
    {f \in [1 .. Cardinality(S) -> S] : \A i, j \in DOMAIN f : f[i] = f[j] => i = j}

RECURSIVE Flatten(_)
Flatten(ss) == IF ss = <<>> THEN <<>> ELSE Head(ss) \o Flatten(Tail(ss))

\* bincode of the inner account: the fields in order, a collection as its
\* length and its elements in iteration order; the id is not part of it.
\* tagOrder and extOrder are the iteration orders of the two collections.
Account_serialize(e, tagOrder, extOrder) ==
    <<e.email, e.password, Len(tagOrder)>> \o tagOrder \o <<Len(extOrder)>>
      \o Flatten([i \in DOMAIN extOrder |->
                    <<extOrder[i], e.ext[extOrder[i]].captcha,
                      e.ext[extOrder[i]].last_req>>])

\* bincode back to the inner account, id not yet set: an error when the
\* buffer ends early; `read` is how much of the buffer was consumed
Account_deserialize(buf) ==
    LET n == buf[3]
        m == buf[4 + n]
        at(i) == 4 + n + 3 * (i - 1)
        entry(v) == CHOOSE i \in 1 .. m : buf[at(i) + 1] = v
    IN  IF Len(buf) < 3 \/ Len(buf) < 4 + n \/ Len(buf) < 4 + n + 3 * m
        THEN [status |-> "Err", read |-> Len(buf)]
        ELSE [status |-> "Ok", read |-> 4 + n + 3 * m,
              email |-> buf[1], password |-> buf[2],
              tags |-> {buf[3 + i] : i \in 1 .. n},
              ext |-> [v \in VerifyVariant |->
                        IF \E i \in 1 .. m : buf[at(i) + 1] = v
                        THEN [captcha |-> buf[at(entry(v)) + 2],
                              last_req |-> buf[at(entry(v)) + 3]]
                        ELSE None]]

\* bincode of the inner unverified account; the email hash is not part of it
Unverified_serialize(e) == <<e.email, e.ext.captcha, e.ext.last_req>>

Unverified_deserialize(buf) ==
    IF Len(buf) < 3
    THEN [status |-> "Err", read |-> Len(buf)]
    ELSE [status |-> "Ok", read |-> 3, email |-> buf[1],
          ext |-> [captcha |-> buf[2], last_req |-> buf[3]]]

\* what decode hands back: Ok(entity), Err(io error) or a panic
Decoded(status, entity, read) ==
    [status |-> status, entity |-> entity, read |-> read]

NoEntity == [id |-> 0 - 1]

\* Account::encode
Account_encode(e, tagOrder, extOrder) == Account_serialize(e, tagOrder, extOrder)

\* Account::decode that does not set the id from the dimension key
Account_decode_no_id(version, dims, buf) ==
    IF version = 1
    THEN LET inner == Account_deserialize(buf)
         IN  IF inner.status = "Err"
             THEN Decoded("Err", NoEntity, inner.read)
             ELSE Decoded("Ok",
                          [id |-> 0, email |-> inner.email,
                           password |-> inner.password, tags |-> inner.tags,
                           ext |-> inner.ext],
                          inner.read)
    ELSE Decoded("panic", NoEntity, 0)

\* Account::decode: version 1 deserializes the inner account and sets its
\* id to dims[0]; any other version is unreachable!()
Account_decode(version, dims, buf) ==
    IF version = 1
    THEN LET inner == Account_deserialize(buf)
         IN  IF inner.status = "Err"
             THEN Decoded("Err", NoEntity, inner.read)
             ELSE Decoded("Ok",
                          [id |-> dims[1], email |-> inner.email,
                           password |-> inner.password, tags |-> inner.tags,
                           ext |-> inner.ext],
                          inner.read)
    ELSE Decoded("panic", NoEntity, 0)

\* Account::dim
Account_dim(e, dim) == IF dim = 0 THEN e.id ELSE NoTime

\* Unverified::encode
Unverified_encode(e) == Unverified_serialize(e)

\* Unverified::decode that decodes every version as the current one
Unverified_decode_any_version(version, dims, buf) ==
    LET inner == Unverified_deserialize(buf)
    IN  IF inner.status = "Err"
        THEN Decoded("Err", NoEntity, inner.read)
        ELSE Decoded("Ok",
                     [email_hash |-> dims[1], email |-> inner.email,
                      ext |-> inner.ext],
                     inner.read)

\* Unverified::decode: as Account::decode, with the email hash
Unverified_decode(version, dims, buf) ==
    IF version = 1
    THEN LET inner == Unverified_deserialize(buf)
         IN  IF inner.status = "Err"
             THEN Decoded("Err", NoEntity, inner.read)
             ELSE Decoded("Ok",
                          [email_hash |-> dims[1], email |-> inner.email,
                           ext |-> inner.ext],
                          inner.read)
    ELSE Decoded("panic", NoEntity, 0)

\* Unverified::dim
Unverified_dim(e, dim) == IF dim = 0 THEN e.email_hash ELSE NoTime

\* The record of the storage engine's last call: an entity encoded to a
\* buffer, or that buffer decoded under a version and a dimension key.
Record(op, kind, entity, buf, version, key, res) ==
    [op |-> op, kind |-> kind, entity |-> entity, buf |-> buf,
     version |-> version, key |-> key, res |-> res]

NoRecord ==
    Record("none", "none", NoEntity, <<>>, 0, 0, Decoded("none", NoEntity, 0))

\* ------------------------------------------------------------- Account
\* req_verify that drops the error of update() (no `?`) and goes on to
\* the send
req_verify_ignore_err(ext, variant, c, t) ==
    IF ext[variant] # None
    THEN [res |-> "send_email", via |-> "update",
          verifies |-> [ext EXCEPT ![variant] = update(ext[variant], c, t).cx]]
    ELSE [res |-> "send_email", via |-> "insert",
          verifies |-> [ext EXCEPT ![variant] = VerifyCx_new(c, t)]]

\* req_verify that inserts a new context whether or not one exists
req_verify_always_insert(ext, variant, c, t) ==
    [res |-> "send_email", via |-> "insert",
     verifies |-> [ext EXCEPT ![variant] = VerifyCx_new(c, t)]]

\* req_verify that sends before it touches the session: the entry is
\* refreshed or inserted only once the send has succeeded
req_verify_send_first(ext, variant, c, t) ==
    IF ext[variant] # None /\ ~update(ext[variant], c, t).ok
    THEN [res |-> "Throttled", via |-> "update", verifies |-> ext]
    ELSE [res |-> "send_email",
          via |-> IF ext[variant] # None THEN "update" ELSE "insert",
          verifies |-> ext]

\* req_verify that refreshes every session of the map, not only `variant`
req_verify_touch_all(ext, variant, c, t) ==
    IF ext[variant] # None
    THEN LET u == update(ext[variant], c, t)
         IN  IF u.ok
             THEN [res |-> "send_email", via |-> "update",
                   verifies |-> [w \in VerifyVariant |->
                                   IF ext[w] # None THEN u.cx ELSE None]]
             ELSE [res |-> "Throttled", via |-> "update", verifies |-> ext]
    ELSE [res |-> "send_email", via |-> "insert",
          verifies |-> [ext EXCEPT ![variant] = VerifyCx_new(c, t)]]

\* req_verify that takes the entry or inserts a new one, and then calls
\* update() on it in either case
req_verify_entry_update(ext, variant, c, t) ==
    LET cx == IF ext[variant] # None THEN ext[variant] ELSE VerifyCx_new(c, t)
        u == update(cx, c, t)
    IN  IF u.ok
        THEN [res |-> "send_email", via |-> "update",
              verifies |-> [ext EXCEPT ![variant] = u.cx]]
        ELSE [res |-> "Throttled", via |-> "update",
              verifies |-> [ext EXCEPT ![variant] = cx]]

\* Account::req_verify up to its await: the session of `variant` is
\* refreshed (update()?, which may return early with the throttle error)
\* or inserted; then send_email is called on it.  c is the captcha the
\* random generator yields, t the current time.
req_verify(ext, variant, c, t) ==
    IF ext[variant] # None
    THEN LET u == update(ext[variant], c, t)
         IN  IF u.ok
             THEN [res |-> "send_email", via |-> "update",
                   verifies |-> [ext EXCEPT ![variant] = u.cx]]
             ELSE [res |-> "Throttled", via |-> "update", verifies |-> ext]
    ELSE [res |-> "send_email", via |-> "insert",
          verifies |-> [ext EXCEPT ![variant] = VerifyCx_new(c, t)]]

\* do_verify that reports success and forgets to remove the entry
do_verify_no_remove(ext, variant, x) ==
    IF ext[variant] = None
    THEN [res |-> "VerifySessionNotFound", verifies |-> ext]
    ELSE IF captcha(ext[variant]) = x
         THEN [res |-> "Ok", verifies |-> ext]
         ELSE [res |-> "CaptchaIncorrect", verifies |-> ext]

\* do_verify that removes the entry before it compares the captcha
do_verify_remove_first(ext, variant, x) ==
    IF ext[variant] = None
    THEN [res |-> "VerifySessionNotFound", verifies |-> ext]
    ELSE IF captcha(ext[variant]) = x
         THEN [res |-> "Ok", verifies |-> [ext EXCEPT ![variant] = None]]
         ELSE [res |-> "CaptchaIncorrect",
               verifies |-> [ext EXCEPT ![variant] = None]]

\* do_verify that takes a missing entry for a wrong captcha
do_verify_absent_incorrect(ext, variant, x) ==
    IF ext[variant] # None /\ captcha(ext[variant]) = x
    THEN [res |-> "Ok", verifies |-> [ext EXCEPT ![variant] = None]]
    ELSE [res |-> "CaptchaIncorrect", verifies |-> ext]

\* Account::do_verify
do_verify(ext, variant, x) ==
    IF ext[variant] = None
    THEN [res |-> "VerifySessionNotFound", verifies |-> ext]
    ELSE IF captcha(ext[variant]) = x
         THEN [res |-> "Ok", verifies |-> [ext EXCEPT ![variant] = None]]
         ELSE [res |-> "CaptchaIncorrect", verifies |-> ext]

\* reset_password that drops the error of do_verify (no `?`)
reset_password_ignore_err(ext, pw, x, new_password) ==
    LET r == do_verify(ext, "ResetPassword", x)
    IN  [res |-> "Ok", verifies |-> r.verifies, password |-> new_password]

\* Account::reset_password: do_verify(ResetPassword, captcha)?, then
\* set_password(new_password)
reset_password(ext, pw, x, new_password) ==
    LET r == do_verify(ext, "ResetPassword", x)
    IN  IF r.res = "Ok"
        THEN [res |-> "Ok", verifies |-> r.verifies, password |-> new_password]
        ELSE [res |-> r.res, verifies |-> r.verifies, password |-> pw]

\* What the send of req_verify leaves behind when it ends with `outcome`
\* (Ok, TransportError) or when the future is dropped while it is pending
\* ("Abandoned"): the session is not touched again.
send_done(ext, variant, outcome) == ext

\* ----------------------------------------------------------- Unverified
\* Unverified::new: the allow-listed domains are accepted and the account
\* gets a VerifyCx::new()
Unverified_new(e, c, t) ==
    IF AllowedDomain(e)
    THEN [res |-> "Ok", unv |-> VerifyCx_new(c, t)]
    ELSE [res |-> "InvalidEmail", unv |-> None]

\* Unverified::send_captcha up to its await: send_email is called on the
\* stored context as it is.
send_captcha(cx, c, t) == [res |-> "send_email", unv |-> cx]

\* ---------------------------------------------------------------- Init
\* A verified account with no verify session and its first password; no
\* unverified account yet.
Init ==
    /\ now = 0
    /\ verifies = ExtDefault
    /\ password = "initial"
    /\ unv = None
    /\ pc = Idle
    /\ last = NoCall
    /\ perm = NoQuery
    /\ codec = NoRecord

\* The clock advances by a minute.
Tick ==
    /\ now < MaxTime
    /\ now' = now + 1
    /\ UNCHANGED <<verifies, password, unv, pc, last, perm, codec>>

\* ------------------------------------------------------ Account actions
\* req_verify(variant, ...) is called and runs to its await, or returns the
\* throttle error.
ReqVerify(variant) ==
    /\ pc = Idle
    /\ \E c \in Captcha :
         LET r == req_verify(verifies, variant, c, now)
         IN  /\ verifies' = r.verifies
             /\ IF r.res = "send_email"
                THEN /\ pc' = Sending(variant, r.via)
                     /\ last' = PendingCall("req_verify", variant)
                ELSE /\ pc' = Idle
                     /\ last' = ThrottledCall("req_verify", variant,
                                              now - verifies[variant].last_req)
    /\ UNCHANGED <<now, password, unv, perm, codec>>

\* req_reset_password: req_verify(VerifyVariant::ResetPassword, ...)
ReqResetPassword == ReqVerify("ResetPassword")

\* The send of a pending req_verify ends: the call returns its outcome.
SendEmailDone(outcome) ==
    /\ pc.at = "send_email"
    /\ pc.variant \in VerifyVariant
    /\ verifies' = send_done(verifies, pc.variant, outcome)
    /\ last' = Call("req_verify", pc.variant, NoCaptcha, outcome,
                    captcha(verifies[pc.variant]))
    /\ pc' = Idle
    /\ UNCHANGED <<now, password, unv, perm, codec>>

\* The caller drops the future of req_verify while the send is pending.
Abandon ==
    /\ pc.at = "send_email"
    /\ pc.variant \in VerifyVariant
    /\ verifies' = send_done(verifies, pc.variant, "Abandoned")
    /\ last' = Call("req_verify", pc.variant, NoCaptcha, "Abandoned", NoCaptcha)
    /\ pc' = Idle
    /\ UNCHANGED <<now, password, unv, perm, codec>>

\* do_verify(variant, x)
DoVerify(variant, x) ==
    /\ pc = Idle
    /\ LET r == do_verify(verifies, variant, x)
       IN  /\ verifies' = r.verifies
           /\ last' = Call("do_verify", variant, x, r.res, NoCaptcha)
    /\ UNCHANGED <<now, password, unv, pc, perm, codec>>

\* reset_password(x, new_password)
ResetPassword(x, new_password) ==
    /\ pc = Idle
    /\ LET r == reset_password(verifies, password, x, new_password)
       IN  /\ verifies' = r.verifies
           /\ password' = r.password
           /\ last' = Call("reset_password", "ResetPassword", x, r.res,
                           NoCaptcha)
    /\ UNCHANGED <<now, unv, pc, perm, codec>>

\* --------------------------------------------------- Unverified actions
\* Unverified::new(email)
UnverifiedNew(e) ==
    /\ pc = Idle
    /\ unv = None
    /\ \E c \in Captcha :
         LET r == Unverified_new(e, c, now)
         IN  /\ unv' = r.unv
             /\ last' = Call("Unverified::new", NoVariant, NoCaptcha, r.res,
                             NoCaptcha)
    /\ UNCHANGED <<now, verifies, password, pc, perm, codec>>

\* send_captcha(...) is called and runs to its await, or returns early.
SendCaptcha ==
    /\ pc = Idle
    /\ unv # None
    /\ \E c \in Captcha :
         LET r == send_captcha(unv, c, now)
         IN  /\ unv' = r.unv
             /\ IF r.res = "send_email"
                THEN /\ pc' = Sending(ActivationLabel, "none")
                     /\ last' = PendingCall("send_captcha", ActivationLabel)
                ELSE /\ pc' = Idle
                     /\ last' = ThrottledCall("send_captcha", ActivationLabel,
                                              now - unv.last_req)
    /\ UNCHANGED <<now, verifies, password, perm, codec>>

\* The send of a pending send_captcha ends.
SendCaptchaDone(outcome) ==
    /\ pc = Sending(ActivationLabel, "none")
    /\ last' = Call("send_captcha", ActivationLabel, NoCaptcha, outcome,
                    captcha(unv))
    /\ pc' = Idle
    /\ UNCHANGED <<now, verifies, password, unv, perm, codec>>

\* ------------------------------------------- permission model queries
\* contains(a, b) is asked
Contains ==
    /\ perm.op = "input"
    /\ perm.t = NoTag
    /\ perm' = [perm EXCEPT !.op = "contains", !.res = contains(perm.a, perm.b)]
    /\ UNCHANGED <<now, verifies, password, unv, pc, last, codec>>

\* contains is asked along the chain a, b, c
Chain ==
    /\ perm.op = "input"
    /\ perm.t = NoTag
    /\ perm' = [perm EXCEPT !.op = "chain",
                            !.res = <<contains(perm.a, perm.b),
                                      contains(perm.b, perm.c),
                                      contains(perm.a, perm.c)>>]
    /\ UNCHANGED <<now, verifies, password, unv, pc, last, codec>>

\* contains is followed from a through every chain of pairs
Implied ==
    /\ perm.op = "input"
    /\ perm.t = NoTag
    /\ perm' = [perm EXCEPT !.op = "implied", !.res = Implies(perm.a)]
    /\ UNCHANGED <<now, verifies, password, unv, pc, last, codec>>

\* default_set() is asked
DefaultSet ==
    /\ perm.op = "input"
    /\ perm' = Query("default_set", NoPermission, NoPermission, NoPermission,
                     NoTag, default_set)
    /\ UNCHANGED <<now, verifies, password, unv, pc, last, codec>>

\* the tag t is classified: as_entry, as_permission, is_user_defineable
Classify ==
    /\ perm.op = "input"
    /\ perm.t # NoTag
    /\ perm' = [perm EXCEPT !.op = "tag",
                            !.res = [entry |-> as_entry(perm.t),
                                     permission |-> as_permission(perm.t),
                                     user_defineable |->
                                        is_user_defineable(as_entry(perm.t))]]
    /\ UNCHANGED <<now, verifies, password, unv, pc, last, codec>>

\* ------------------------------------------------------- codec actions
\* the storage engine encodes the account
EncodeAccount ==
    /\ codec.op = "input"
    /\ codec.kind = "Account"
    /\ \E tagOrder \in Orders(codec.entity.tags),
          extOrder \in Orders({v \in VerifyVariant : codec.entity.ext[v] # None}) :
         codec' = [codec EXCEPT
                      !.op = "encode",
                      !.buf = Account_encode(codec.entity, tagOrder, extOrder)]
    /\ UNCHANGED <<now, verifies, password, unv, pc, last, perm>>

\* the storage engine encodes the unverified account
EncodeUnverified ==
    /\ codec.op = "input"
    /\ codec.kind = "Unverified"
    /\ codec' = [codec EXCEPT !.op = "encode",
                              !.buf = Unverified_encode(codec.entity)]
    /\ UNCHANGED <<now, verifies, password, unv, pc, last, perm>>

\* the storage engine decodes the buffer it holds, or the buffer less its
\* last item, under a version and one dimension key
Decode(version, key, short) ==
    /\ codec.op = "encode"
    /\ LET buf == SubSeq(codec.buf, 1, Len(codec.buf) - short)
       IN  codec' = Record("decode", codec.kind, codec.entity, buf, version, key,
                           IF codec.kind = "Account"
                           THEN Account_decode(version, <<key>>, buf)
                           ELSE Unverified_decode(version, <<key>>, buf))
    /\ UNCHANGED <<now, verifies, password, unv, pc, last, perm>>

\* -------------------------------------------------------- specifications
\* the codec: an entity to store is given, encoded, and decoded
InitD ==
    /\ now = 0
    /\ verifies = ExtDefault
    /\ password = "initial"
    /\ unv = None
    /\ pc = Idle
    /\ last = NoCall
    /\ perm = NoQuery
    /\ codec \in
         {Record("input", "Account", e, <<>>, VERSION, e.id,
                 Decoded("none", NoEntity, 0)) : e \in AccountEntity}
         \cup {Record("input", "Unverified", e, <<>>, VERSION, e.email_hash,
                      Decoded("none", NoEntity, 0)) : e \in UnverifiedEntity}

NextD ==
    \/ EncodeAccount
    \/ EncodeUnverified
    \/ \E version \in Version, key \in Key, short \in {0, 1} :
          Decode(version, key, short)

SpecD == InitD /\ [][NextD]_vars

\* the permission model and the tag system: three permissions or a tag
\* are given, and the functions are applied to them
InitP ==
    /\ now = 0
    /\ verifies = ExtDefault
    /\ password = "initial"
    /\ unv = None
    /\ pc = Idle
    /\ last = NoCall
    /\ codec = NoRecord
    /\ perm \in
         {Query("input", a, b, c, NoTag, FALSE) :
             a \in Permission, b \in Permission, c \in Permission}
         \cup {Query("input", NoPermission, NoPermission, NoPermission, t, FALSE) :
                  t \in Tag}

NextP ==
    \/ Contains
    \/ Chain
    \/ Implied
    \/ DefaultSet
    \/ Classify

SpecP == InitP /\ [][NextP]_vars

\* the verified account
Next ==
    \/ Tick
    \/ \E v \in VerifyVariant : ReqVerify(v)
    \/ ReqResetPassword
    \/ \E o \in SendOutcome : SendEmailDone(o)
    \/ Abandon
    \/ \E v \in VerifyVariant, x \in Captcha : DoVerify(v, x)
    \/ \E x \in Captcha, p \in Password : ResetPassword(x, p)

Spec == Init /\ [][Next]_vars

NextU ==
    \/ Tick
    \/ \E e \in Email : UnverifiedNew(e)
    \/ SendCaptcha
    \/ \E o \in SendOutcome : SendCaptchaDone(o)

SpecU == Init /\ [][NextU]_vars

TypeOK ==
    /\ now \in Time
    /\ verifies \in Ext
    /\ password \in Password
    /\ unv \in VerifyCx \cup {None}
    /\ pc.at \in {"idle", "send_email"}

\* ============================================================== claims
Pending(v) == verifies[v] # None

\* C1: a validate with the stored captcha of a Pending session returns Ok
\* and removes the session, and a validate of the same variant and captcha
\* that follows it with no other call in between returns
\* VerifySessionNotFound.
C1_ValidateOnce ==
    [][\A v \in VerifyVariant, c \in Captcha :
          /\ (Pending(v) /\ captcha(verifies[v]) = c /\ DoVerify(v, c))
                => (last'.res = "Ok" /\ verifies'[v] = None)
          /\ (last = Call("do_verify", v, c, "Ok", NoCaptcha) /\ DoVerify(v, c))
                => (last'.res = "VerifySessionNotFound" /\ verifies' = verifies)
      ]_vars

\* a validate has just succeeded and consumed the session
C1_Witness ==
    /\ last.op = "do_verify"
    /\ last.res = "Ok"
    /\ verifies[last.variant] = None
    /\ now > 0

\* C2: a validate with a captcha other than the stored one returns
\* CaptchaIncorrect and changes no session, and a validate with the stored
\* captcha right after it returns Ok.
C2_WrongCaptchaKeepsSession ==
    [][\A v \in VerifyVariant, x \in Captcha :
          /\ (Pending(v) /\ captcha(verifies[v]) # x /\ DoVerify(v, x))
                => (last'.res = "CaptchaIncorrect" /\ verifies' = verifies)
          /\ (/\ last = Call("do_verify", v, x, "CaptchaIncorrect", NoCaptcha)
              /\ Pending(v)
              /\ DoVerify(v, captcha(verifies[v])))
                => last'.res = "Ok"
      ]_vars

\* a wrong attempt has just been rejected and the session is still there
C2_Witness ==
    /\ last.op = "do_verify"
    /\ last.res = "CaptchaIncorrect"
    /\ Pending(last.variant)
    /\ captcha(verifies[last.variant]) # last.arg

Elapsed(v) == now - verifies[v].last_req

\* req_verify(v) got past update()/insert and is at its send
Requested(v) == ReqVerify(v) /\ pc'.at = "send_email" /\ pc'.variant = v

\* req_verify(v) returned the throttle error
Throttled(v) == ReqVerify(v) /\ pc' = Idle /\ last'.res = "Throttled"

C4_ThrottledUpToBoundary ==
    [][/\ \A v \in VerifyVariant :
            (Pending(v) /\ ReqVerify(v))
               => IF Elapsed(v) <= Cooldown
                  THEN /\ last' = ThrottledCall("req_verify", v, Elapsed(v))
                       /\ pc' = Idle
                       /\ verifies' = verifies
                  ELSE /\ pc' = Sending(v, "update")
                       /\ verifies'[v].last_req = now
       /\ (Pending("ResetPassword") /\ ReqResetPassword)
               => (Elapsed("ResetPassword") <= Cooldown
                      <=> (last'.res = "Throttled" /\ pc' = Idle))
      ]_vars

\* a request has been throttled exactly ten minutes after the last one
C4_Witness ==
    /\ last.op = "req_verify"
    /\ last.res = "Throttled"
    /\ last.elapsed = Cooldown
    /\ Pending(last.variant)

\* C5 (as stated): a request exactly a cooldown after the last one does not
\* return Throttled and refreshes the session.
C5_Original ==
    [][\A v \in VerifyVariant :
          (Pending(v) /\ Elapsed(v) = Cooldown /\ ReqVerify(v))
             => (Requested(v) /\ verifies'[v].last_req = now)
      ]_vars

\* C5 (amended): a request exactly a cooldown after the last one returns
\* Throttled and leaves the session as it was; one minute later it
\* succeeds and the session is refreshed.
C5_BoundaryIsThrottled ==
    [][\A v \in VerifyVariant :
          /\ (Pending(v) /\ Elapsed(v) = Cooldown /\ ReqVerify(v))
                => (Throttled(v) /\ verifies' = verifies)
          /\ (Pending(v) /\ Elapsed(v) = Cooldown + 1 /\ ReqVerify(v))
                => (Requested(v) /\ verifies'[v].last_req = now)
      ]_vars

\* a request was throttled at the boundary and the same session is still
\* stored, ten minutes old
C5_Witness ==
    /\ last.op = "req_verify"
    /\ last.res = "Throttled"
    /\ last.elapsed = Cooldown
    /\ Elapsed(last.variant) = Cooldown
    /\ pc = Idle

\* C6: req_verify stores the new or refreshed session before the send, and
\* neither a failed send nor a call dropped at the send changes it again:
\* the session stays Pending with the captcha and the time of the request.
C6_NoRollback ==
    [][/\ \A v \in VerifyVariant :
            Requested(v)
               => \E c \in Captcha :
                     verifies' = [verifies EXCEPT ![v] = VerifyCx_new(c, now)]
       /\ (SendEmailDone("TransportError") \/ Abandon)
               => /\ verifies' = verifies
                  /\ verifies'[pc.variant] # None
                  /\ last'.op = "req_verify"
                  /\ last'.res \in {"TransportError", "Abandoned"}
      ]_vars

\* the send of a request has failed and the session it issued is stored
C6_Witness ==
    /\ last.op = "req_verify"
    /\ last.res = "TransportError"
    /\ Pending(last.variant)
    /\ captcha(verifies[last.variant]) = last.sent
    /\ pc = Idle

\* C7: send_captcha returns the Throttled error, and sends nothing, when
\* the time since the last request of the activation session is at most
\* the cooldown, and after the cooldown it regenerates the captcha and the
\* timestamp before it sends.
C7_SendCaptchaThrottles ==
    [][SendCaptcha
          => IF now - unv.last_req <= Cooldown
             THEN /\ pc' = Idle
                  /\ last'.res = "Throttled"
                  /\ unv' = unv
             ELSE /\ pc'.at = "send_email"
                  /\ unv'.last_req = now
      ]_vars

\* C8: reset_password replaces the credential exactly when the validation
\* of the ResetPassword session succeeds; then the session is removed in
\* the same call; otherwise credential and sessions stay as they were; and
\* the credential changes in no other way.
C8_ResetPasswordIffValid ==
    [][/\ \A x \in Captcha, p \in Password :
            ResetPassword(x, p)
               => IF Pending("ResetPassword")
                     /\ captcha(verifies["ResetPassword"]) = x
                  THEN /\ last'.res = "Ok"
                       /\ password' = p
                       /\ verifies' = [verifies EXCEPT !["ResetPassword"] = None]
                  ELSE /\ last'.res = IF Pending("ResetPassword")
                                      THEN "CaptchaIncorrect"
                                      ELSE "VerifySessionNotFound"
                       /\ password' = password
                       /\ verifies' = verifies
       /\ password' # password
               => /\ last' = Call("reset_password", "ResetPassword",
                                  captcha(verifies["ResetPassword"]), "Ok",
                                  NoCaptcha)
                  /\ Pending("ResetPassword")
                  /\ verifies'["ResetPassword"] = None
      ]_vars

\* a reset has just replaced the password and consumed the session
C8_Witness ==
    /\ last.op = "reset_password"
    /\ last.res = "Ok"
    /\ password # "initial"
    /\ ~Pending("ResetPassword")

\* C9: with no session for the variant, validate returns
\* VerifySessionNotFound for every candidate and changes neither the
\* session map nor the credential.
C9_NotFound ==
    [][\A v \in VerifyVariant, x \in Captcha :
          (~Pending(v) /\ DoVerify(v, x))
             => /\ last' = Call("do_verify", v, x, "VerifySessionNotFound",
                                NoCaptcha)
                /\ verifies' = verifies
                /\ password' = password
      ]_vars

\* a validate has found no session, and another variant has one
C9_Witness ==
    /\ last.op = "do_verify"
    /\ last.res = "VerifySessionNotFound"
    /\ ~Pending(last.variant)
    /\ \E w \in VerifyVariant : Pending(w)

\* the calls of the account that work on variant v
OnVariant(v) ==
    \/ ReqVerify(v)
    \/ \E x \in Captcha : DoVerify(v, x)
    \/ (pc.variant = v /\ (Abandon \/ \E o \in SendOutcome : SendEmailDone(o)))

\* C10: the map holds at most one session per variant; a request or a
\* validate on variant v, whatever it returns, leaves the session of every
\* other variant as it was; and whether a request on v is throttled is
\* decided by v's own last request time alone.
C10_VariantsIndependent ==
    /\ [](verifies \in Ext)
    /\ [][\A v \in VerifyVariant :
             /\ OnVariant(v)
                   => \A w \in VerifyVariant \ {v} : verifies'[w] = verifies[w]
             /\ ReqVerify(v)
                   => (Throttled(v) <=> (Pending(v) /\ Elapsed(v) <= Cooldown))
         ]_vars

\* one variant is consumed while the other is still pending, and both
\* variants pending with different request times
C10_Witness ==
    /\ last.op = "do_verify"
    /\ last.res = "Ok"
    /\ \E w \in VerifyVariant \ {last.variant} :
          Pending(w) /\ verifies[w].last_req < now

\* ------------------------------------------------- session life cycle
\* C16: a session goes from Pending to Absent only through a successful
\* validate of its variant; there is no expiry: the passing of time
\* changes no session, a Pending session is validated by its stored
\* captcha however old it is, and it changes otherwise only by a
\* re-request after the cooldown.
C16_NoExpiry ==
    [][\A v \in VerifyVariant :
          /\ (Pending(v) /\ verifies'[v] = None)
                => /\ last'.op \in {"do_verify", "reset_password"}
                   /\ last'.variant = v
                   /\ last'.res = "Ok"
                   /\ last'.arg = captcha(verifies[v])
          /\ Tick => verifies' = verifies
          /\ (Pending(v) /\ DoVerify(v, captcha(verifies[v])))
                => (last'.res = "Ok" /\ verifies'[v] = None)
          /\ (Pending(v) /\ verifies'[v] # None /\ verifies'[v] # verifies[v])
                => (Requested(v) /\ Elapsed(v) > Cooldown)
      ]_vars

\* a session older than the cooldown is still stored after a validate
\* that had the wrong captcha
C16_Witness ==
    /\ last.op = "do_verify"
    /\ last.res = "CaptchaIncorrect"
    /\ Pending(last.variant)
    /\ Elapsed(last.variant) > Cooldown

\* the last call was a request for v that failed at its send, or a retry
\* of one that was throttled
FailedOrThrottled(v) ==
    /\ last.op = "req_verify"
    /\ last.variant = v
    /\ last.res \in {"TransportError", "Throttled"}

C18_NoSessionNoThrottle ==
    [][\A v \in VerifyVariant :
          /\ (~Pending(v) /\ ReqVerify(v))
                => /\ Requested(v)
                   /\ pc' = Sending(v, "insert")
                   /\ \E c \in Captcha :
                        verifies' = [verifies EXCEPT ![v] = VerifyCx_new(c, now)]
          /\ (/\ last.op \in {"do_verify", "reset_password"}
              /\ last.variant = v
              /\ last.res = "Ok"
              /\ ReqVerify(v))
                => (Requested(v) /\ verifies'[v].last_req = now)
      ]_vars

\* a request has inserted a session at the current minute and is at its
\* send, with the other variant's session still inside its cooldown
C18_Witness ==
    /\ pc.at = "send_email"
    /\ pc.via = "insert"
    /\ pc.variant \in VerifyVariant
    /\ verifies[pc.variant].last_req = now
    /\ now > 0
    /\ \E w \in VerifyVariant \ {pc.variant} :
          Pending(w) /\ Elapsed(w) <= Cooldown

\* C19: req_verify calls the transport only after the session was
\* inserted or refreshed: a request that returns Throttled does not call
\* it; a pending send is the send of the captcha stored for its variant;
\* and a call sends once (no second send starts while one is pending, and
\* the call returns when the send ends).
C19_SendAfterUpdate ==
    /\ []((pc.at = "send_email" /\ pc.variant \in VerifyVariant)
             => (Pending(pc.variant) /\ last = PendingCall("req_verify", pc.variant)))
    /\ [][/\ \A v \in VerifyVariant :
               /\ (ReqVerify(v) /\ last'.res = "Throttled")
                     => (pc' = Idle /\ last'.sent = NoCaptcha)
               /\ Requested(v) => pc = Idle
          /\ \A o \in SendOutcome :
               SendEmailDone(o)
                  => /\ last'.sent \in Captcha
                     /\ last'.sent = captcha(verifies[pc.variant])
                     /\ last'.sent = captcha(verifies'[pc.variant])
                     /\ pc' = Idle
         ]_vars

\* a send has ended well: what it carried is the stored captcha
C19_Witness ==
    /\ last.op = "req_verify"
    /\ last.res = "Ok"
    /\ Pending(last.variant)
    /\ last.sent = captcha(verifies[last.variant])
    /\ pc = Idle

\* ------------------------------------------------- permissions and tags
\* the pairs the documentation of Permission declares
DeclaredPairs ==
    { <<"Post", "GetPubPost">>, <<"ReviewPost", "GetPubPost">>,
      <<"RemovePost", "GetPubPost">>, <<"RemovePost", "ReviewPost">>,
      <<"SetPermissions", "ViewFullAccount">>,
      <<"SetPermissions", "ViewSimpleAccount">>,
      <<"ViewFullAccount", "ViewSimpleAccount">>,
      <<"ManageNotifications", "GetPubNotifications">> }

\* C11: contains(a, b) is true exactly for the eight declared pairs and
\* false for every other pair, every reversed pair and every pair (a, a)
\* included.
C11_ContainsTable ==
    perm.op = "contains"
       => /\ perm.res <=> (<<perm.a, perm.b>> \in DeclaredPairs)
          /\ (<<perm.b, perm.a>> \in DeclaredPairs \/ perm.a = perm.b)
                => ~perm.res

\* contains was asked for the reverse of a declared pair and said no
C11_Witness ==
    /\ perm.op = "contains"
    /\ perm.a = "GetPubPost"
    /\ perm.b = "RemovePost"
    /\ perm.res = FALSE
    /\ contains(perm.b, perm.a)

\* the permissions no new account is to receive
Privileged ==
    {"ReviewPost", "RemovePost", "SetPermissions", "ViewFullAccount",
     "ManageNotifications", "Maintain"}

\* C12: default_set() is exactly {Post, GetPubPost, ViewSimpleAccount,
\* UploadResource, GetPubNotifications}; it holds none of ReviewPost,
\* RemovePost, SetPermissions, ViewFullAccount, ManageNotifications,
\* Maintain, and no permission that contains one of them.
C12_DefaultSet ==
    perm.op = "default_set"
       => /\ perm.res = {"Post", "GetPubPost", "ViewSimpleAccount",
                         "UploadResource", "GetPubNotifications"}
          /\ perm.res \cap Privileged = {}
          /\ \A p \in perm.res : Implies(p) \cap Privileged = {}

\* default_set() was asked and answered with five permissions
C12_Witness ==
    /\ perm.op = "default_set"
    /\ Cardinality(perm.res) = 5
    /\ "Post" \in perm.res

\* C13: is_user_defineable is false for the Permission entry and true for
\* Department, House and Academy; so for every tag t,
\* is_user_defineable(as_entry(t)) is false exactly when as_permission(t)
\* is Some.
C13_UserDefineable ==
    perm.op = "tag"
       => /\ perm.res.user_defineable <=> (perm.res.entry # "Permission")
          /\ perm.res.entry \in TagEntry
          /\ perm.res.entry = "Permission" <=> (perm.t[1] = "Tag::Permission")
          /\ ~perm.res.user_defineable <=> perm.res.permission.some
          /\ perm.res.permission.some => perm.res.permission.p = perm.t[2]

\* a department tag was classified: user definable, no permission in it
C13_Witness ==
    /\ perm.op = "tag"
    /\ perm.res.entry = "Department"
    /\ perm.res.user_defineable
    /\ ~perm.res.permission.some

\* C20: the table is closed under multi-hop implication (contains(a, b)
\* and contains(b, c) imply contains(a, c); whatever a chain of pairs
\* reaches from a, one pair reaches), irreflexive, and has no cycle.
C20_ClosedIrreflexiveAcyclic ==
    /\ perm.op = "chain" => (perm.res[1] /\ perm.res[2] => perm.res[3])
    /\ perm.op = "contains" /\ perm.a = perm.b => ~perm.res
    /\ perm.op = "implied"
          => /\ perm.a \notin perm.res
             /\ perm.res = {q \in Permission : contains(perm.a, q)}

\* a two-hop chain was asked: RemovePost, ReviewPost, GetPubPost
C20_Witness ==
    /\ perm.op = "chain"
    /\ perm.res = <<TRUE, TRUE, TRUE>>
    /\ perm.a # perm.c

\* ---------------------------------------------------------------- codec
\* decode was given all that encode wrote for the entity, not a part of it
Whole ==
    Len(codec.buf) =
       IF codec.kind = "Account"
       THEN 4 + Cardinality(codec.entity.tags)
              + 3 * Cardinality({v \in VerifyVariant : codec.entity.ext[v] # None})
       ELSE 3

C15_OtherVersionAborts ==
    (codec.op = "decode" /\ codec.version # VERSION)
       => /\ codec.res.status = "panic"
          /\ codec.res.entity = NoEntity
          /\ codec.res.read = 0

\* an unverified account's whole buffer was given to decode under version 2
C15_Witness ==
    /\ codec.op = "decode"
    /\ codec.kind = "Unverified"
    /\ codec.version = 2
    /\ Len(codec.buf) = 3
    /\ codec.res.status = "panic"

====
